---- MODULE Spec2Model ----
(***************************************************************************)
(* Model of the etherscan ingestion pipeline of                            *)
(* src/nascent_etherscan_ingestor/src/assignment/ingest.py:                *)
(*   start()                  the coordinator and its ThreadPoolExecutor   *)
(*   call_api_and_produce()   the producer task                            *)
(*   consume()                the consumer task                            *)
(*   __save()                 the batch flush                              *)
(*   __get_or_create_address  the identity resolver                        *)
(*   __block_ranges()         the range partitioner                        *)
(*   __call_etherscan()       the remote client and its semaphore          *)
(* The configuration (src.assignment.config) is not part of the sources;   *)
(* its values are modelled by small numbers.  DEV_MODE and TEST_MODE are   *)
(* taken to be off, except that the block span is given (as TEST_MODE      *)
(* does) rather than asked from the remote API.                            *)
(***************************************************************************)
EXTENDS Integers, Sequences, FiniteSets, TLC

\* ------------------------------------------------------------------------
\* Configuration values (src.assignment.config, imported at ingest.py:10-14)
\* ------------------------------------------------------------------------
MaxProducerThreads == 2
MaxConsumerThreads == 2
MaxRanges == 3
\* a larger pool over more ranges, for the sliding window of producer tasks
PoolProducerThreads == 3
PoolRanges == 6
\* the ranges of the runs in which the drain is followed to its end
DrainRanges == 2
RECORD_RETRIEVAL_LIMIT == 2
SAVE_BATCH_LIMIT == 2
BASE_BLOCK_ATTEMPT == 40
BLOCK_ATTEMPTS == <<30>>
\* the literal window used once BLOCK_ATTEMPTS is exhausted (ingest.py:156)
FALLBACK_BLOCK_ATTEMPT == 20
\* TEST_MODE_STARTING_BLOCK
StartBlock == 1
\* the permits of api_call_semaphore (ingest.py:22)
SEMAPHOR_THREAD_COUNT == 1
\* the default of the retries parameter of __call_etherscan (ingest.py:37)
RETRIES == 4

Min(a, b) == IF a <= b THEN a ELSE b

\* ------------------------------------------------------------------------
\* State
\* ------------------------------------------------------------------------
VARIABLES
  \* configuration and remote ledger, fixed for a run
  producerThreads,   \* PRODUCER_THREAD_COUNT, also the executor's max_workers
  consumerThreads,   \* CONSUMER_THREAD_COUNT
  endBlock,          \* ending_block of start()
  ledger,            \* the remote ledger: records sorted by blockNumber
  apiDown,           \* start blocks for which the remote call raises
  storeFaults,       \* the uses of the store that may fail with an error
                     \* other than IntegrityError: "resolve", "save", "count"
  \* the coordinator start()
  coordPc,           \* position in start()
  coordI,            \* loop index of the for loops / consumer_futures
  genCurrent,        \* `current` of the block_generator
  futures,           \* the list `futures` (producer thread ids)
  pending,           \* the futures the running as_completed() still yields
  threadId,          \* thread_id, the next producer id
  \* the executor
  workQueue,         \* submitted tasks no worker thread has taken yet
  \* the tasks
  prod,              \* producer id -> its local state
  cons,              \* consumer id -> its local state
  \* shared objects
  queue,             \* queue_for_transactions
  event,             \* producers_all_done_event
  \* the relational store
  addrTable,         \* rows of addresses
  addrSeq,           \* the id sequence of addresses
  txTable,           \* rows of transactions, in insertion order
  \* history
  setCount,          \* number of event.set() calls
  enq,               \* rid -> number of times it was put on the queue
  deq,               \* rid -> the consumers that took it from the queue
  flushed,           \* rid -> number of flushes its entity was part of
  drainWaits,        \* consumer -> pop timeouts taken with the signal set
  \* the partitioner and the identity resolver on their own
  gen,               \* a block_generator being drained
  res,               \* caller -> its call of __get_or_create_address
  returned,          \* the <<address, result>> pairs the calls returned
  \* the remote client on its own
  api,               \* caller -> its call of __call_etherscan
  permits            \* the value of api_call_semaphore

cfgVars == <<producerThreads, consumerThreads, endBlock, ledger, apiDown, storeFaults>>
coordVars == <<coordPc, coordI, genCurrent, futures, pending, threadId>>
storeVars == <<addrTable, addrSeq, txTable>>
histVars == <<setCount, enq, deq, flushed, drainWaits>>
clientVars == <<api, permits>>
auxVars == <<gen, res, returned, clientVars>>
pipeVars == <<cfgVars, coordVars, workQueue, prod, cons, queue, event, histVars>>
vars == <<pipeVars, storeVars, auxVars>>

\* ------------------------------------------------------------------------
\* The remote ledger and the remote call
\* ------------------------------------------------------------------------
Rec(rid, block, hash, from, to, value, isError) ==
  [rid |-> rid, blockNumber |-> block, timeStamp |-> "1", hash |-> hash, from |-> from,
   to |-> to, value |-> value, isError |-> isError]

\* Records the remote ledger may hold for the address, sorted by block number.
\* rid is the record's identity in the model (the API's traceId); the hash is
\* the hash of the parent transaction, which several internal transfers share.
\* Record 8 is not well formed: its timeStamp is the empty string.
Pool ==
  << Rec(1, StartBlock + 4, "h1", "a", "b", "1", "0"),
     Rec(7, StartBlock + 24, "h5", "b", "a", "1", "0"),
     [Rec(8, StartBlock + 26, "h6", "a", "b", "1", "0") EXCEPT !.timeStamp = ""],
     Rec(2, StartBlock + 34, "h2", "b", "a", "1", "0"),
     Rec(3, StartBlock + 35, "h2", "b", "b", "2", "0"),
     Rec(4, StartBlock + BASE_BLOCK_ATTEMPT + 4, "h1", "a", "c", "1", "0"),
     Rec(5, StartBlock + BASE_BLOCK_ATTEMPT + 34, "h3", "c", "a", "0", "0"),
     Rec(6, StartBlock + 2 * BASE_BLOCK_ATTEMPT + 4, "h4", "a", "b", "1", "1") >>

Rids == {Pool[k].rid : k \in 1..Len(Pool)}

LedgerOf(S) == SelectSeq(Pool, LAMBDA r : r.rid \in S)

Take(s, n) == IF Len(s) <= n THEN s ELSE SubSeq(s, 1, n)

\* The "result" list of one txlistinternal page: the records of the address in
\* [startblock, endblock], ascending, cut to the page size (offset=).
ApiResult(startblock, endblock) ==
  Take(SelectSeq(ledger, LAMBDA r : r.blockNumber >= startblock /\ r.blockNumber <= endblock),
       RECORD_RETRIEVAL_LIMIT)

\* __call_etherscan raises once its retries are used up.
ApiRaises(startblock) == startblock \in apiDown

\* the strings int() accepts; of any other it raises ValueError
Decimals == {"0", "1", "2"}

\* int("...") of a decimal string of the ledger
IntOf(s) == CASE s = "0" -> 0 [] s = "1" -> 1 [] s = "2" -> 2

\* the filter without its test of the error flag
Keep_ValueOnly(tx) == IntOf(tx.value) > 0

\* the producer's filter (ingest.py:172)
Keep(tx) == IntOf(tx.value) > 0 /\ tx.isError /= "1"

\* a page taken for full only when it exceeds the limit
PageFull_Strict(data) == Len(data) > RECORD_RETRIEVAL_LIMIT

\* the condition of the overflow loop (ingest.py:149)
PageFull(data) == Len(data) >= RECORD_RETRIEVAL_LIMIT

\* the end of the window not cut at the end of the range
TentativeEnd_Unclipped(current_block, window, ending_block) == current_block + window

\* tentative_end_block (ingest.py:134, 157)
TentativeEnd(current_block, window, ending_block) == Min(current_block + window, ending_block)

\* ------------------------------------------------------------------------
\* The range partitioner __block_ranges: one step of the generator
\* ------------------------------------------------------------------------
GenHasNext(current, end) == current <= end
\* the range made one block too long
GenYield_Overlap(current, end, step) == <<current, Min(current + step, end)>>

GenYield(current, end, step) == <<current, Min(current + step - 1, end)>>
GenAdvance(current, step) == current + step

\* ------------------------------------------------------------------------
\* The relational store
\* ------------------------------------------------------------------------
\* session.query(Address).filter_by(address=a): the ids of the rows found
AddrIds(table, a) == {r.id : r \in {x \in table : x.address = a}}

\* addresses.address is UNIQUE: an INSERT of an address already stored fails
AddrInsertOk(table, a) == AddrIds(table, a) = {}

\* the None of `return None` (ingest.py:80): no id of the sequence
None == -1

\* __get_or_create_address run without interference: <<id, table, sequence>>
GetOrCreate(table, seq, a) ==
  IF AddrIds(table, a) /= {}
  THEN <<CHOOSE i \in AddrIds(table, a) : TRUE, table, seq>>
  ELSE <<seq + 1, table \cup {[id |-> seq + 1, address |-> a]}, seq + 1>>

\* whether a call of __get_or_create_address may meet an error other than
\* IntegrityError
ResolveFails == IF "resolve" \in storeFaults THEN BOOLEAN ELSE {FALSE}

\* ingest.py:77-80: that error is logged, the session rolled back, None returned
Resolve(table, seq, a, fails) ==
  IF fails THEN <<None, table, seq>> ELSE GetOrCreate(table, seq, a)

Hashes(rows) == {rows[k].hash : k \in 1..Len(rows)}

\* transactions.hash is UNIQUE: the bulk INSERT of a batch fails when a hash of
\* the batch is stored already or occurs twice in the batch
TxInsertOk(table, batch) ==
  /\ Hashes(table) \cap Hashes(batch) = {}
  /\ \A i, j \in 1..Len(batch) : batch[i].hash = batch[j].hash => i = j

\* __save: bulk_save_objects + commit; on IntegrityError, or any other error,
\* rollback.  <<table, batch>> afterwards: the batch is cleared on success only.
Save(table, batch) ==
  IF TxInsertOk(table, batch) THEN <<table \o batch, <<>>>> ELSE <<table, batch>>

\* whether bulk_save_objects or commit may meet an error other than IntegrityError
SaveFails == IF "save" \in storeFaults THEN BOOLEAN ELSE {FALSE}

\* ingest.py:105-108: that error is logged and the session rolled back
SaveOrFail(table, batch, fails) == IF fails THEN <<table, batch>> ELSE Save(table, batch)

\* whether the count query of the log line after a flush may raise (ingest.py:220)
CountFails == IF "count" \in storeFaults THEN BOOLEAN ELSE {FALSE}

\* ------------------------------------------------------------------------
\* The executor
\* ------------------------------------------------------------------------
ConsRunning == {c \in DOMAIN cons : cons[c].pc \notin {"new", "queued", "done"}}
ProdRunning == {p \in DOMAIN prod : prod[p].pc \notin {"queued", "done", "failed"}}
ProdFinished == {p \in DOMAIN prod : prod[p].pc \in {"done", "failed"}}
ProdUnfinished == DOMAIN prod \ ProdFinished
Running == Cardinality(ConsRunning) + Cardinality(ProdRunning)

\* executor.submit(call_api_and_produce, DEFAULT_ADDRESS, *new_range, queue, thread_id)
NewProducer(range) ==
  [pc |-> "queued", starting_block |-> range[1], ending_block |-> range[2],
   current_block |-> range[1], tentative_end_block |-> range[1],
   block_attempt_index |-> 0, block_window_amount |-> BASE_BLOCK_ATTEMPT,
   data |-> <<>>, i |-> 1, windows |-> <<>>]

\* A worker thread takes the oldest submitted task; the pool has max_workers threads.
\* A consumer starts with a session of its own (ingest.py:192-193).
WorkerStart ==
  /\ workQueue /= <<>>
  /\ Running < producerThreads
  /\ LET t == Head(workQueue) IN
       /\ workQueue' = Tail(workQueue)
       /\ IF t[1] = "c"
          THEN /\ cons' = [cons EXCEPT ![t[2]].pc = "check", ![t[2]].session = "open"]
               /\ UNCHANGED prod
          ELSE /\ prod' = [prod EXCEPT ![t[2]].pc = "loop"]
               /\ UNCHANGED cons
  /\ UNCHANGED <<cfgVars, coordVars, queue, event, storeVars, histVars, auxVars>>

\* ------------------------------------------------------------------------
\* The producer task call_api_and_produce
\* ------------------------------------------------------------------------
othersP == <<cfgVars, coordVars, workQueue, cons, event, storeVars, setCount, deq, flushed,
             drainWaits, auxVars>>

\* ingest.py:130-147: the head of the outer loop, the query of the base window
\* and the empty-result branch.  The loop ends when current_block passes
\* ending_block; an exception of __call_etherscan ends the task (181-183).
ProducerLoop(p) ==
  /\ prod[p].pc = "loop"
  /\ LET s == prod[p]
         tentative == TentativeEnd(s.current_block, BASE_BLOCK_ATTEMPT, s.ending_block)
         data == ApiResult(s.current_block, tentative)
     IN
       prod' = [prod EXCEPT ![p] =
         IF s.current_block > s.ending_block THEN [s EXCEPT !.pc = "done"]
         ELSE IF ApiRaises(s.current_block) THEN [s EXCEPT !.pc = "failed"]
         ELSE IF data = <<>>
           THEN [s EXCEPT !.tentative_end_block = tentative, !.data = data,
                          !.current_block = tentative + 1,
                          !.windows = Append(@, <<s.current_block, tentative>>)]
           ELSE [s EXCEPT !.tentative_end_block = tentative, !.data = data,
                          !.block_attempt_index = 0, !.pc = "overflow"]]
  /\ UNCHANGED <<othersP, queue, enq>>

\* ingest.py:149-163: while the page is full, query a smaller window from the
\* same current_block.  block_attempt_index is kept from growing past the
\* first index that selects the fallback window: every larger index selects it too.
ProducerOverflow(p) ==
  /\ prod[p].pc = "overflow"
  /\ LET s == prod[p]
         window == IF s.block_attempt_index < Len(BLOCK_ATTEMPTS)
                   THEN BLOCK_ATTEMPTS[s.block_attempt_index + 1]
                   ELSE FALLBACK_BLOCK_ATTEMPT
         tentative == TentativeEnd(s.current_block, window, s.ending_block)
     IN
       prod' = [prod EXCEPT ![p] =
         IF PageFull(s.data)
         THEN IF ApiRaises(s.current_block) THEN [s EXCEPT !.pc = "failed"]
              ELSE [s EXCEPT !.block_window_amount = window,
                             !.tentative_end_block = tentative,
                             !.data = ApiResult(s.current_block, tentative),
                             !.block_attempt_index =
                                Min(s.block_attempt_index + 1, Len(BLOCK_ATTEMPTS) + 1)]
         ELSE [s EXCEPT !.pc = "put", !.i = 1]]
  /\ UNCHANGED <<othersP, queue, enq>>

\* ingest.py:171-179: one turn of the for loop over the page (filter and put),
\* and after the last record the advance of current_block, which is made only
\* if the page holds records.  windows is history: the windows past which
\* current_block was moved, here and in the empty-result branch.
ProducerPut(p) ==
  /\ prod[p].pc = "put"
  /\ LET s == prod[p] IN
       IF s.i <= Len(s.data)
       THEN /\ prod' = [prod EXCEPT ![p].i = s.i + 1]
            /\ IF Keep(s.data[s.i])
               THEN /\ queue' = Append(queue, s.data[s.i])
                    /\ enq' = [enq EXCEPT ![s.data[s.i].rid] = @ + 1]
               ELSE UNCHANGED <<queue, enq>>
       ELSE /\ prod' = [prod EXCEPT ![p] =
                 IF s.data /= <<>>
                 THEN [s EXCEPT !.current_block = s.tentative_end_block + 1,
                                !.block_window_amount = BASE_BLOCK_ATTEMPT,
                                !.windows = Append(@, <<s.current_block, s.tentative_end_block>>),
                                !.pc = "loop"]
                 ELSE [s EXCEPT !.pc = "loop"]]
            /\ UNCHANGED <<queue, enq>>
  /\ UNCHANGED othersP

\* ------------------------------------------------------------------------
\* The consumer task consume
\* ------------------------------------------------------------------------
othersC == <<cfgVars, coordVars, workQueue, prod, event, setCount, enq, auxVars>>

\* Transaction(...) of ingest.py:203-213
Transaction(tx, from_address_id, to_address_id) ==
  [rid |-> tx.rid, block_number |-> tx.blockNumber, time_stamp |-> IntOf(tx.timeStamp),
   hash |-> tx.hash, from_address_id |-> from_address_id, to_address_id |-> to_address_id,
   value |-> IntOf(tx.value), is_error |-> IntOf(tx.isError)]

\* the int() calls of ingest.py:204-212 all succeed
Constructs(tx) == tx.timeStamp \in Decimals /\ tx.value \in Decimals /\ tx.isError \in Decimals

\* ingest.py:237-241: an exception leaving the while loop is logged by the
\* outer handler, the final flush is passed over, and finally closes the session
Aborted(c, cause) == [c EXCEPT !.pc = "done", !.exit = cause, !.session = "closed"]

\* history: the entities of a batch handed to __save
Flushed(batch) ==
  [r \in Rids |-> flushed[r] + Cardinality({k \in 1..Len(batch) : batch[k].rid = r})]

\* ingest.py:197: the loop condition
ConsumerCheck(c) ==
  /\ cons[c].pc = "check"
  /\ cons' = [cons EXCEPT ![c].pc = IF ~event \/ queue /= <<>> THEN "get" ELSE "final"]
  /\ UNCHANGED <<othersC, queue, storeVars, deq, flushed, drainWaits>>

\* ingest.py:199: get(timeout=5) returns the oldest record
ConsumerGet(c) ==
  /\ cons[c].pc = "get"
  /\ queue /= <<>>
  /\ cons' = [cons EXCEPT ![c].pc = "process", ![c].transaction = Head(queue)]
  /\ queue' = Tail(queue)
  /\ deq' = [deq EXCEPT ![Head(queue).rid] = Append(@, c)]
  /\ UNCHANGED <<othersC, storeVars, flushed, drainWaits>>

\* ingest.py:199, 223: get(timeout=5) finds no record in time and raises queue.Empty
ConsumerTimeout(c) ==
  /\ cons[c].pc = "get"
  /\ queue = <<>>
  /\ cons' = [cons EXCEPT ![c].pc = "empty"]
  /\ drainWaits' = [drainWaits EXCEPT ![c] = IF event THEN @ + 1 ELSE @]
  /\ UNCHANGED <<othersC, queue, storeVars, deq, flushed>>

\* the handler with its test inverted: it breaks while the signal is unset
ConsumerEmpty_Inverted(c) ==
  /\ cons[c].pc = "empty"
  /\ cons' = [cons EXCEPT ![c].pc = IF ~event THEN "final" ELSE "check"]
  /\ UNCHANGED <<othersC, queue, storeVars, deq, flushed, drainWaits>>

\* ingest.py:224-232: the handler of queue.Empty reads the signal
ConsumerEmpty(c) ==
  /\ cons[c].pc = "empty"
  /\ cons' = [cons EXCEPT ![c].pc = IF event THEN "final" ELSE "check"]
  /\ UNCHANGED <<othersC, queue, storeVars, deq, flushed, drainWaits>>

\* a batch flushed only when it exceeds the limit
BatchFull_Strict(batch) == Len(batch) > SAVE_BATCH_LIMIT

\* ingest.py:215: the condition of the flush inside the loop
BatchFull(batch) == Len(batch) >= SAVE_BATCH_LIMIT

\* ingest.py:200-215: both addresses are resolved, with None for one whose
\* resolution failed; the entity is built and appended to the batch.  A record
\* of which the entity cannot be built raises out of the loop.
ConsumerProcess(c) ==
  /\ cons[c].pc = "process"
  /\ \E ff \in ResolveFails, tf \in ResolveFails :
       LET tx == cons[c].transaction
           f == Resolve(addrTable, addrSeq, tx.from, ff)
           t == Resolve(f[2], f[3], tx.to, tf)
       IN
         /\ addrTable' = t[2]
         /\ addrSeq' = t[3]
         /\ cons' = [cons EXCEPT ![c] =
              IF Constructs(tx)
              THEN LET batch == Append(cons[c].batch, Transaction(tx, f[1], t[1])) IN
                     [@ EXCEPT !.batch = batch,
                               !.pc = IF BatchFull(batch) THEN "save" ELSE "check"]
              ELSE Aborted(@, "record")]
  /\ UNCHANGED <<othersC, queue, txTable, deq, flushed, drainWaits>>

\* the flush without the clear() that follows __save: a batch that __save
\* rolled back stays in memory
ConsumerSave_KeepsBatch(c) ==
  /\ cons[c].pc = "save"
  /\ \E sf \in SaveFails, cf \in CountFails :
       /\ txTable' = SaveOrFail(txTable, cons[c].batch, sf)[1]
       /\ cons' = [cons EXCEPT ![c] =
            IF cf THEN Aborted([@ EXCEPT !.batch = SaveOrFail(txTable, cons[c].batch, sf)[2]], "count")
            ELSE [@ EXCEPT !.batch = SaveOrFail(txTable, cons[c].batch, sf)[2], !.pc = "check"]]
  /\ flushed' = Flushed(cons[c].batch)
  /\ UNCHANGED <<othersC, queue, addrTable, addrSeq, deq, drainWaits>>

\* ingest.py:216-222: the flush of a full batch; the batch is cleared whatever
\* __save did; then the log line with its count query, which is outside the
\* inner try: if it raises, the exception leaves the loop
ConsumerSave(c) ==
  /\ cons[c].pc = "save"
  /\ \E sf \in SaveFails, cf \in CountFails :
       /\ txTable' = SaveOrFail(txTable, cons[c].batch, sf)[1]
       /\ cons' = [cons EXCEPT ![c] =
            IF cf THEN Aborted([@ EXCEPT !.batch = <<>>], "count")
            ELSE [@ EXCEPT !.batch = <<>>, !.pc = "check"]]
  /\ flushed' = Flushed(cons[c].batch)
  /\ UNCHANGED <<othersC, queue, addrTable, addrSeq, deq, drainWaits>>

\* the end of the task without the final flush
ConsumerFinal_NoFlush(c) ==
  /\ cons[c].pc = "final"
  /\ cons' = [cons EXCEPT ![c].pc = "done", ![c].exit = "normal", ![c].session = "closed"]
  /\ UNCHANGED <<othersC, queue, storeVars, deq, flushed, drainWaits>>

\* ingest.py:234-241: the final flush of a partial batch, then session.close()
ConsumerFinal(c) ==
  /\ cons[c].pc = "final"
  /\ IF cons[c].batch /= <<>>
     THEN \E sf \in SaveFails :
            /\ txTable' = SaveOrFail(txTable, cons[c].batch, sf)[1]
            /\ flushed' = Flushed(cons[c].batch)
            /\ cons' = [cons EXCEPT ![c].batch = SaveOrFail(txTable, cons[c].batch, sf)[2],
                                    ![c].pc = "done", ![c].exit = "normal",
                                    ![c].session = "closed"]
     ELSE /\ cons' = [cons EXCEPT ![c].pc = "done", ![c].exit = "normal",
                                  ![c].session = "closed"]
          /\ UNCHANGED <<txTable, flushed>>
  /\ UNCHANGED <<othersC, queue, addrTable, addrSeq, deq, drainWaits>>

\* ------------------------------------------------------------------------
\* The coordinator start()
\* ------------------------------------------------------------------------
othersS == <<cfgVars, cons, queue, storeVars, enq, deq, flushed, drainWaits, auxVars>>

\* ingest.py:274-277: submit the consumers
CoordSubmitConsumer ==
  /\ coordPc = "consumers"
  /\ IF coordI < consumerThreads
     THEN /\ cons' = [cons EXCEPT ![coordI].pc = "queued"]
          /\ workQueue' = Append(workQueue, <<"c", coordI>>)
          /\ coordI' = coordI + 1
          /\ UNCHANGED coordPc
     ELSE /\ coordPc' = "initial"
          /\ coordI' = 0
          /\ UNCHANGED <<cons, workQueue>>
  /\ UNCHANGED <<cfgVars, genCurrent, futures, pending, threadId, prod, queue, event,
                 storeVars, histVars, auxVars>>

\* next(block_generator), then executor.submit and futures.append
SubmitNext ==
  /\ prod' = prod @@ (threadId :> NewProducer(GenYield(genCurrent, endBlock, BASE_BLOCK_ATTEMPT)))
  /\ workQueue' = Append(workQueue, <<"p", threadId>>)
  /\ genCurrent' = GenAdvance(genCurrent, BASE_BLOCK_ATTEMPT)
  /\ threadId' = threadId + 1

\* ingest.py:279-288: the first PRODUCER_THREAD_COUNT producers
CoordInitialSubmit ==
  /\ coordPc = "initial"
  /\ IF coordI < producerThreads /\ GenHasNext(genCurrent, endBlock)
     THEN /\ SubmitNext
          /\ futures' = futures \cup {threadId}
          /\ coordI' = coordI + 1
          /\ UNCHANGED coordPc
     ELSE /\ coordPc' = "while"
          /\ UNCHANGED <<prod, workQueue, genCurrent, threadId, futures, coordI>>
  /\ UNCHANGED <<othersS, pending, event, setCount>>

\* ingest.py:290-291: `while futures`, and as_completed(futures) taking its
\* copy of the list
CoordWhile ==
  /\ coordPc = "while"
  /\ IF futures /= {}
     THEN /\ pending' = futures
          /\ coordPc' = "as_completed"
     ELSE /\ pending' = {}
          /\ coordPc' = "set"
  /\ UNCHANGED <<othersS, coordI, genCurrent, futures, threadId, workQueue, prod, event, setCount>>

\* StopIteration leaving both loops: the signal is set with futures left
CoordAsCompleted_LeavesBoth ==
  /\ coordPc = "as_completed"
  /\ IF pending = {}
     THEN /\ coordPc' = "while"
          /\ UNCHANGED <<prod, workQueue, genCurrent, threadId, futures, pending>>
     ELSE \E f \in pending \cap ProdFinished :
            IF GenHasNext(genCurrent, endBlock)
            THEN /\ SubmitNext
                 /\ futures' = (futures \ {f}) \cup {threadId}
                 /\ pending' = pending \ {f}
                 /\ UNCHANGED coordPc
            ELSE /\ futures' = futures \ {f}
                 /\ pending' = {}
                 /\ coordPc' = "set"
                 /\ UNCHANGED <<prod, workQueue, genCurrent, threadId>>
  /\ UNCHANGED <<othersS, coordI, event, setCount>>

\* ingest.py:291-301: as_completed yields a finished future of its copy; it is
\* removed and replaced by a producer for the next range, and StopIteration
\* breaks the for loop.  The for loop also ends when the copy is used up.
CoordAsCompleted ==
  /\ coordPc = "as_completed"
  /\ IF pending = {}
     THEN /\ coordPc' = "while"
          /\ UNCHANGED <<prod, workQueue, genCurrent, threadId, futures, pending>>
     ELSE \E f \in pending \cap ProdFinished :
            IF GenHasNext(genCurrent, endBlock)
            THEN /\ SubmitNext
                 /\ futures' = (futures \ {f}) \cup {threadId}
                 /\ pending' = pending \ {f}
                 /\ UNCHANGED coordPc
            ELSE /\ futures' = futures \ {f}
                 /\ pending' = {}
                 /\ coordPc' = "while"
                 /\ UNCHANGED <<prod, workQueue, genCurrent, threadId>>
  /\ UNCHANGED <<othersS, coordI, event, setCount>>

\* ingest.py:303: producers_all_done_event.set()
CoordSet ==
  /\ coordPc = "set"
  /\ event' = TRUE
  /\ setCount' = setCount + 1
  /\ coordPc' = "await"
  /\ coordI' = 0
  /\ UNCHANGED <<othersS, genCurrent, futures, pending, threadId, workQueue, prod>>

\* ingest.py:306-310: consumer_future.result() for each consumer in turn, then
\* the executor's shutdown(wait=True) at the end of the with block
CoordAwait ==
  /\ coordPc = "await"
  /\ IF coordI < consumerThreads
     THEN /\ cons[coordI].pc = "done"
          /\ coordI' = coordI + 1
          /\ UNCHANGED coordPc
     ELSE /\ workQueue = <<>>
          /\ Running = 0
          /\ coordPc' = "returned"
          /\ UNCHANGED coordI
  /\ UNCHANGED <<othersS, genCurrent, futures, pending, threadId, workQueue, prod, event, setCount>>

\* ------------------------------------------------------------------------
\* The pipeline
\* ------------------------------------------------------------------------
InitRun ==
  /\ coordPc = "consumers"
  /\ coordI = 0
  /\ genCurrent = StartBlock
  /\ futures = {}
  /\ pending = {}
  /\ threadId = 0
  /\ workQueue = <<>>
  /\ prod = <<>>
  /\ cons = [c \in 0..(consumerThreads - 1) |->
               [pc |-> "new", transaction |-> <<>>, batch |-> <<>>, session |-> "none",
                exit |-> "none"]]
  /\ queue = <<>>
  /\ event = FALSE
  /\ addrTable = {}
  /\ addrSeq = 0
  /\ txTable = <<>>
  /\ setCount = 0
  /\ enq = [r \in Rids |-> 0]
  /\ deq = [r \in Rids |-> <<>>]
  /\ flushed = [r \in Rids |-> 0]
  /\ drainWaits = [c \in 0..(consumerThreads - 1) |-> 0]

\* The ledgers of the runs: none, one record, a full page that a smaller window
\* resolves, a full page whose smaller window is empty, one hash in two ranges,
\* records the filter drops, full pages down to the fallback window.
Ledgers == {LedgerOf(S) : S \in {{}, {1}, {1, 2}, {2, 3}, {1, 2, 3}, {1, 4}, {1, 4, 5, 6}, {1, 7}}}

\* no call of the remote client is followed: the semaphore as constructed
InitClientIdle ==
  /\ api = <<>>
  /\ permits = SEMAPHOR_THREAD_COUNT

InitAux ==
  /\ gen = <<>>
  /\ res = <<>>
  /\ returned = {}
  /\ InitClientIdle

Init ==
  \E N \in 1..MaxProducerThreads, M \in 1..MaxConsumerThreads, n \in 1..MaxRanges :
    \E S \in Ledgers :
      \E D \in {{}, {StartBlock}} :
        /\ producerThreads = N
        /\ consumerThreads = M
        /\ endBlock = StartBlock + n * BASE_BLOCK_ATTEMPT - 1
        /\ apiDown = D
        /\ storeFaults = {}
        /\ ledger = S
        /\ InitRun
        /\ InitAux

\* One consumer, PoolProducerThreads producers, PoolRanges ranges.
InitPool ==
  /\ producerThreads = PoolProducerThreads
  /\ consumerThreads = 1
  /\ endBlock = StartBlock + PoolRanges * BASE_BLOCK_ATTEMPT - 1
  /\ apiDown = {}
  /\ storeFaults = {}
  /\ ledger \in {LedgerOf(S) : S \in {{1, 2}, {1, 4}}}
  /\ InitRun
  /\ InitAux

Producer ==
  \/ \E p \in DOMAIN prod : ProducerLoop(p)
  \/ \E p \in DOMAIN prod : ProducerOverflow(p)
  \/ \E p \in DOMAIN prod : ProducerPut(p)

Consumer ==
  \/ \E c \in DOMAIN cons : ConsumerCheck(c)
  \/ \E c \in DOMAIN cons : ConsumerGet(c)
  \/ \E c \in DOMAIN cons : ConsumerTimeout(c)
  \/ \E c \in DOMAIN cons : ConsumerEmpty(c)
  \/ \E c \in DOMAIN cons : ConsumerProcess(c)
  \/ \E c \in DOMAIN cons : ConsumerSave(c)
  \/ \E c \in DOMAIN cons : ConsumerFinal(c)

Coordinator ==
  \/ CoordSubmitConsumer \/ CoordInitialSubmit \/ CoordWhile \/ CoordAsCompleted
  \/ CoordSet \/ CoordAwait

Next == WorkerStart \/ Producer \/ Consumer \/ Coordinator

Spec == Init /\ [][Next]_vars

SpecPool == InitPool /\ [][Next]_vars

\* A consumer that a worker thread runs is scheduled again and again.
ConsumerStep(c) ==
  \/ ConsumerCheck(c) \/ ConsumerGet(c) \/ ConsumerTimeout(c) \/ ConsumerEmpty(c)
  \/ ConsumerProcess(c) \/ ConsumerSave(c) \/ ConsumerFinal(c)

\* Runs without a failing remote call, over fewer ranges, for the drain.
InitDrain ==
  \E N \in 1..MaxProducerThreads, M \in 1..MaxConsumerThreads, n \in 1..DrainRanges :
    \E S \in {LedgerOf(T) : T \in {{1}, {1, 2}, {1, 4}}} :
      /\ producerThreads = N
      /\ consumerThreads = M
      /\ endBlock = StartBlock + n * BASE_BLOCK_ATTEMPT - 1
      /\ apiDown = {}
      /\ storeFaults = {}
      /\ ledger = S
      /\ InitRun
      /\ InitAux

SpecDrain ==
  /\ InitDrain
  /\ [][Next]_vars
  /\ \A c \in 0..(MaxConsumerThreads - 1) : WF_vars(c \in DOMAIN cons /\ ConsumerStep(c))

\* Runs in which a record of the ledger is not well formed or a use of the
\* store fails, over FaultRanges ranges.
FaultRanges == 2

InitFaults ==
  \E N \in 1..MaxProducerThreads, M \in 1..MaxConsumerThreads :
    \E S \in {LedgerOf(T) : T \in {{1}, {8}, {1, 8}, {1, 7}, {1, 4}}} :
      \E F \in {{}, {"resolve"}, {"save"}, {"count"}} :
        /\ producerThreads = N
        /\ consumerThreads = M
        /\ endBlock = StartBlock + FaultRanges * BASE_BLOCK_ATTEMPT - 1
        /\ apiDown = {}
        /\ storeFaults = F
        /\ ledger = S
        /\ InitRun
        /\ InitAux

SpecFaults == InitFaults /\ [][Next]_vars

\* ------------------------------------------------------------------------
\* Properties of the pipeline
\* ------------------------------------------------------------------------
ConsDone == \A c \in DOMAIN cons : cons[c].pc = "done"
ProdQueued == {p \in DOMAIN prod : prod[p].pc = "queued"}
Drained == event /\ queue = <<>>
RowsWithHash(h) == {k \in 1..Len(txTable) : txTable[k].hash = h}
RidsWithHash(h) == {Pool[k].rid : k \in {j \in 1..Len(Pool) : Pool[j].hash = h}}
DequeuedWithHash(h) == {r \in RidsWithHash(h) : deq[r] /= <<>>}

\* C1: in a run in which no remote call fails, the pool never reaches the
\* state in which a submitted producer waits for a worker thread while every
\* worker thread is held by a consumer that waits for the signal: from that
\* state no producer runs, the signal is never set and start() never returns.
C1_NoPoolDeadlock ==
  apiDown = {} =>
    ~ ( /\ ProdQueued /= {}
        /\ ~event
        /\ ProdRunning = {}
        /\ Cardinality(ConsRunning) = producerThreads )

\* C2: once a producer task has raised, the coordinator neither sets the
\* completion signal nor returns as from a normal run.
C2_FailurePropagates ==
  (\E p \in DOMAIN prod : prod[p].pc = "failed") => (~event /\ coordPc /= "returned")

\* C3: once every consumer has left its loop and exited, the queue is empty
\* and every record put on it was taken by exactly one consumer.
C3_NoStrandedRecord ==
  ConsDone => (queue = <<>> /\ \A r \in Rids : Len(deq[r]) = enq[r])

\* C4: when the run is over, a hash that was dequeued twice has exactly one
\* row in transactions.
C4_ExactlyOnePerHash ==
  (ConsDone /\ coordPc = "returned") =>
    \A h \in Hashes(Pool) :
      Cardinality(DequeuedWithHash(h)) >= 2 => Cardinality(RowsWithHash(h)) = 1

\* C5: every turn of the producer's outer loop that processed a page which was
\* not full moves current_block past the window, so no current_block is
\* queried again and the loop ends.
C5_WindowAdvances ==
  [][\A p \in DOMAIN prod :
       (prod[p].pc = "put" /\ prod'[p].pc = "loop")
         => prod'[p].current_block > prod[p].current_block]_vars

\* C8: the signal starts unset, is set at most once, by the coordinator's
\* set() only, and only when the partitioner is exhausted and every producer
\* task launched has completed; once set it stays set.
C8_OneWayLatch ==
  /\ ~event
  /\ [](setCount <= 1 /\ (event <=> setCount = 1))
  /\ [][ /\ event => event'
         /\ (event' /= event \/ setCount' /= setCount) =>
              /\ coordPc = "set" /\ coordPc' = "await"
              /\ ~GenHasNext(genCurrent, endBlock)
              /\ futures = {}
              /\ ProdUnfinished = {} ]_vars

\* the signal set in a run of several producer tasks, a consumer still running
C8_Witness == event /\ setCount = 1 /\ Cardinality(DOMAIN prod) >= 2 /\ ConsRunning /= {}

\* C9, in runs in which no record fails in processing: with the signal set a
\* consumer takes at most one pop timeout, leaves the loop from the handler of
\* that timeout without another turn, and when it has terminated every record
\* it dequeued has been handed to a flush.
C9_DrainSafety ==
  \A c \in DOMAIN cons :
    /\ drainWaits[c] <= 1
    /\ drainWaits[c] = 1 => cons[c].pc \in {"empty", "final", "done"}
    /\ cons[c].pc = "done" =>
         \A r \in Rids : (\E k \in 1..Len(deq[r]) : deq[r][k] = c) => flushed[r] >= 1

InLoop(c) == c \in DOMAIN cons /\ cons[c].pc \in {"check", "get", "empty", "process", "save"}

\* C9: from a state with the signal set and the queue empty, every consumer
\* still in its loop leaves it after at most one pop timeout, never starting
\* a second wait, makes its final flush and terminates.
C9_DrainCompletion ==
  /\ []C9_DrainSafety
  /\ \A c \in 0..(MaxConsumerThreads - 1) :
       (Drained /\ InLoop(c)) ~> (c \in DOMAIN cons /\ cons[c].pc = "done")

\* C9: a consumer that is in its loop when the signal is set and the queue
\* empty does not terminate with entities in its batch that no flush was given.
C9_DrainEndsInFlush ==
  [][\A c \in DOMAIN cons :
       (Drained /\ InLoop(c) /\ cons'[c].pc = "done") =>
         \A k \in 1..Len(cons'[c].batch) : flushed'[cons'[c].batch[k].rid] >= 1]_vars

\* a consumer that took its one timeout with the signal set, flushed and ended
C9_Witness ==
  \E c \in DOMAIN cons :
    /\ cons[c].pc = "done" /\ drainWaits[c] = 1
    /\ \E r \in Rids : deq[r] = <<c>> /\ flushed[r] = 1

\* C10: the coordinator never has more than PRODUCER_THREAD_COUNT unfinished
\* producer tasks, and while ranges remain and fewer than that are unfinished
\* it is never left waiting in as_completed for a task that still runs: a
\* finished task is at hand for it to replace.
C10_KeepsPoolFull ==
  /\ Cardinality(ProdUnfinished) <= producerThreads
  /\ ( /\ coordPc = "as_completed"
       /\ GenHasNext(genCurrent, endBlock)
       /\ Cardinality(ProdUnfinished) < producerThreads )
     => (pending = {} \/ pending \cap ProdFinished /= {})

\* the well-formed records with a positive value and no error flag
Qualifies(tx) == tx.value \in {"1", "2"} /\ tx.isError /= "1"
InWindows(p, b) == {k \in 1..Len(prod[p].windows) : prod[p].windows[k][1] <= b /\ b <= prod[p].windows[k][2]}
\* the records of the ledger in the windows producer p has completed
Completed(p) == {k \in 1..Len(ledger) : InWindows(p, ledger[k].blockNumber) /= {}}

\* C15: of the page a producer is putting, and of the windows it has
\* completed, a record is on the queue's history if and only if its value is
\* positive and its error flag is not "1", and then exactly once.
C15_FilterCorrectness ==
  /\ \A r \in Rids : enq[r] <= 1
  /\ \A p \in DOMAIN prod :
       /\ prod[p].pc = "put" =>
            \A k \in 1..Len(prod[p].data) :
              enq[prod[p].data[k].rid] =
                IF k < prod[p].i /\ Qualifies(prod[p].data[k]) THEN 1 ELSE 0
       /\ \A k \in Completed(p) : enq[ledger[k].rid] = IF Qualifies(ledger[k]) THEN 1 ELSE 0

\* a run over pages with a zero value and with an error flag: the record of
\* value 1 was put once and the two others were passed over
C15_Witness ==
  /\ enq[4] = 1 /\ enq[5] = 0 /\ enq[6] = 0
  /\ \E p \in DOMAIN prod : prod[p].pc = "done" /\ \E k \in Completed(p) : ledger[k].rid = 6
  /\ \E p \in DOMAIN prod : prod[p].pc = "done" /\ \E k \in Completed(p) : ledger[k].rid = 5

\* the k-th range of the partitioner, k from 0
RangeOf(k) ==
  <<StartBlock + k * BASE_BLOCK_ATTEMPT,
    Min(StartBlock + (k + 1) * BASE_BLOCK_ATTEMPT - 1, endBlock)>>

\* C16: producer k works on the k-th range of the partitioner and on no
\* other; the windows it has completed start at the start of its range, follow
\* one another without gap or overlap and stay inside the range; a producer
\* that has returned ended its last window at the end of its range; and when
\* start() has returned and no producer failed, every block of the span lies
\* in exactly one completed window of exactly one producer.
C16_BlockCoverage ==
  /\ \A p \in DOMAIN prod :
       LET W == prod[p].windows IN
         /\ <<prod[p].starting_block, prod[p].ending_block>> = RangeOf(p)
         /\ \A k \in 1..Len(W) :
              /\ W[k][1] <= W[k][2]
              /\ W[k][1] = IF k = 1 THEN prod[p].starting_block ELSE W[k - 1][2] + 1
              /\ W[k][2] <= prod[p].ending_block
         /\ prod[p].current_block =
              IF W = <<>> THEN prod[p].starting_block ELSE W[Len(W)][2] + 1
         /\ prod[p].pc = "done" => (W /= <<>> /\ W[Len(W)][2] = prod[p].ending_block)
  /\ (coordPc = "returned" /\ \A p \in DOMAIN prod : prod[p].pc /= "failed") =>
       \A b \in StartBlock..endBlock :
         Cardinality({p \in DOMAIN prod : InWindows(p, b) /= {}}) = 1

\* start() has returned from a run of several producers without a failure, one
\* of which covered its range in more than one window
C16_Witness ==
  /\ coordPc = "returned"
  /\ Cardinality(DOMAIN prod) >= 2
  /\ \A p \in DOMAIN prod : prod[p].pc = "done"
  /\ \E p \in DOMAIN prod : Len(prod[p].windows) >= 2

\* the window size of the attempt sequence for an attempt index
AttemptWindow(index) ==
  IF index < Len(BLOCK_ATTEMPTS) THEN BLOCK_ATTEMPTS[index + 1] ELSE FALLBACK_BLOCK_ATTEMPT

\* C19: the page a producer filters and puts holds fewer records than the
\* page limit; a query made while the page at hand holds the page limit of
\* records puts nothing on the queue, keeps current_block, and asks for the
\* window of the next size of the attempt sequence, the fallback size once
\* the sequence is used up.
C19_NonFullPageOnly ==
  /\ [](\A p \in DOMAIN prod :
          prod[p].pc = "put" => Len(prod[p].data) < RECORD_RETRIEVAL_LIMIT)
  /\ [][\A p \in DOMAIN prod :
          ( /\ prod[p].pc = "overflow"
            /\ Len(prod[p].data) >= RECORD_RETRIEVAL_LIMIT
            /\ prod'[p] /= prod[p]
            /\ prod'[p].pc /= "failed" )
          => /\ queue' = queue /\ enq' = enq
             /\ prod'[p].pc = "overflow"
             /\ prod'[p].current_block = prod[p].current_block
             /\ prod'[p].block_window_amount = AttemptWindow(prod[p].block_attempt_index)
             /\ prod'[p].tentative_end_block =
                  Min(prod[p].current_block + AttemptWindow(prod[p].block_attempt_index),
                      prod[p].ending_block)
             /\ prod'[p].data = ApiResult(prod[p].current_block, prod'[p].tentative_end_block)]_vars

\* a producer puts the page of the fallback window, after the base window
\* and the window of the attempt sequence both came back full
C19_Witness ==
  \E p \in DOMAIN prod :
    /\ prod[p].pc = "put"
    /\ prod[p].data /= <<>>
    /\ prod[p].block_attempt_index > Len(BLOCK_ATTEMPTS)
    /\ prod[p].block_window_amount = FALLBACK_BLOCK_ATTEMPT

\* C20: a batch never holds more than SAVE_BATCH_LIMIT entities; at the loop
\* condition, at the pop and in the handler of its timeout it holds fewer,
\* and a batch flushed inside the loop holds exactly SAVE_BATCH_LIMIT.
C20_BatchBound ==
  \A c \in DOMAIN cons :
    /\ Len(cons[c].batch) <= SAVE_BATCH_LIMIT
    /\ cons[c].pc \in {"check", "get", "empty", "process"} => Len(cons[c].batch) < SAVE_BATCH_LIMIT
    /\ cons[c].pc = "save" => Len(cons[c].batch) = SAVE_BATCH_LIMIT

\* a consumer about to flush a full batch inside its loop
C20_Witness ==
  \E c \in DOMAIN cons : cons[c].pc = "save" /\ Len(cons[c].batch) = SAVE_BATCH_LIMIT

\* the entities a consumer holds in its batch and the rows of transactions
Entities ==
  UNION {{cons[c].batch[k] : k \in 1..Len(cons[c].batch)} : c \in DOMAIN cons}
    \cup {txTable[k] : k \in 1..Len(txTable)}
StoredRids == {txTable[k].rid : k \in 1..Len(txTable)}
DequeuedBy(c) == {r \in Rids : \E k \in 1..Len(deq[r]) : deq[r][k] = c}

\* C13: every entity batched or stored carries the ids of two rows of
\* addresses: no entity is built from a resolution that failed.
C13_ReferentialInvariant ==
  \A e \in Entities :
    /\ e.from_address_id \in {r.id : r \in addrTable}
    /\ e.to_address_id \in {r.id : r \in addrTable}

\* C14: a consumer does not end because the entity of a record could not be
\* built, and it does not end with entities in its batch that no flush was
\* given.
C14_FailureDoesNotAbort ==
  \A c \in DOMAIN cons :
    cons[c].pc = "done" =>
      /\ cons[c].exit /= "record"
      /\ \A k \in 1..Len(cons[c].batch) : flushed[cons[c].batch[k].rid] >= 1

\* a hash of the batch is stored already or occurs twice in the batch
Conflict(table, batch) ==
  \/ \E i \in 1..Len(batch), k \in 1..Len(table) : batch[i].hash = table[k].hash
  \/ \E i, j \in 1..Len(batch) : i /= j /\ batch[i].hash = batch[j].hash

C18_FinalFlush ==
  /\ \A r \in Rids : flushed[r] <= Len(deq[r]) /\ Len(deq[r]) <= 1
  /\ \A c \in DOMAIN cons :
       /\ (cons[c].pc = "done" /\ cons[c].exit = "normal") =>
            \A r \in DequeuedBy(c) : flushed[r] = 1
       /\ cons[c].pc = "done" => (cons[c].session = "closed" /\ cons[c].exit /= "none")
       /\ cons[c].pc \in {"check", "get", "empty", "process", "save", "final"} =>
            cons[c].session = "open"

\* a consumer ended normally after the final flush of a partial batch of one
\* record, which stored it
C18_Witness ==
  \E c \in DOMAIN cons :
    /\ cons[c].pc = "done" /\ cons[c].exit = "normal" /\ cons[c].session = "closed"
    /\ Cardinality(DequeuedBy(c)) = 1
    /\ \A r \in DequeuedBy(c) : flushed[r] = 1 /\ r \in StoredRids

\* ------------------------------------------------------------------------
\* The range partitioner on its own: a generator drained by next()
\* ------------------------------------------------------------------------
MaxRangeStart == 2
MaxRangeSpan == 6
MaxRangeStep == 4

\* The pipeline at rest, for the specifications of a single function.
InitIdle ==
  /\ producerThreads = 1
  /\ consumerThreads = 1
  /\ endBlock = StartBlock
  /\ apiDown = {}
  /\ storeFaults = {}
  /\ ledger = <<>>
  /\ InitRun

\* __block_ranges(start, end, step): the generator before its first next()
NewGenerator(start, end, step) ==
  [start |-> start, end |-> end, step |-> step, current |-> start, out |-> <<>>,
   pc |-> "running"]

\* next(block_generator): the next range, or StopIteration
GenNext ==
  /\ gen.pc = "running"
  /\ gen' = IF GenHasNext(gen.current, gen.end)
            THEN [gen EXCEPT !.out = Append(gen.out, GenYield(gen.current, gen.end, gen.step)),
                             !.current = GenAdvance(gen.current, gen.step)]
            ELSE [gen EXCEPT !.pc = "exhausted"]
  /\ UNCHANGED <<pipeVars, storeVars, res, returned, clientVars>>

InitRanges ==
  /\ InitIdle
  /\ res = <<>>
  /\ returned = {}
  /\ InitClientIdle
  /\ \/ \E start \in 0..MaxRangeStart, span \in 0..MaxRangeSpan, step \in 1..MaxRangeStep :
          gen = NewGenerator(start, start + span, step)
     \/ gen = NewGenerator(100, 250, 100)

SpecRanges == InitRanges /\ [][GenNext]_vars

\* C7: the ranges yielded for (start, end, step), start <= end, step >= 1, are
\* (start, min(start+step-1, end)), (start+step, ...), ...: each is non-empty,
\* consecutive ranges are adjacent, and once the generator is exhausted they
\* cover [start, end], every block in exactly one range.
C7_RangeCoverage ==
  LET out == gen.out IN
    /\ \A k \in 1..Len(out) :
         /\ out[k] = <<gen.start + (k - 1) * gen.step,
                       Min(gen.start + k * gen.step - 1, gen.end)>>
         /\ out[k][1] <= out[k][2]
         /\ k > 1 => out[k][1] = out[k - 1][2] + 1
    /\ Len(out) <= gen.end - gen.start + 1
    /\ gen.pc = "exhausted" =>
         /\ Len(out) >= 1
         /\ out[1][1] = gen.start
         /\ out[Len(out)][2] = gen.end
         /\ \A b \in gen.start..gen.end :
              Cardinality({k \in 1..Len(out) : out[k][1] <= b /\ b <= out[k][2]}) = 1
         /\ (gen.start = 100 /\ gen.end = 250 /\ gen.step = 100)
              => out = << <<100, 199>>, <<200, 250>> >>

\* an exhausted generator of three or more ranges, the last one cut short by end
C7_Witness ==
  /\ gen.pc = "exhausted"
  /\ Len(gen.out) >= 3
  /\ gen.out[Len(gen.out)][2] - gen.out[Len(gen.out)][1] + 1 < gen.step

\* ------------------------------------------------------------------------
\* The identity resolver on its own: concurrent calls of
\* __get_or_create_address, each with a session of its own
\* ------------------------------------------------------------------------
MaxCallers == 2
MaxCalls == 2
Addresses == {"a", "b"}

\* `return addr_obj.id` (or None): the call is over
Return(w, a, id) ==
  /\ returned' = returned \cup {<<a, id>>}
  /\ res' = [res EXCEPT ![w].pc = "idle", ![w].calls = @ + 1]

\* the consumer calls __get_or_create_address(address) (ingest.py:200-201)
ResolverCall(w) ==
  /\ res[w].pc = "idle"
  /\ res[w].calls < MaxCalls
  /\ \E a \in Addresses : res' = [res EXCEPT ![w].pc = "query", ![w].address = a]
  /\ UNCHANGED <<pipeVars, storeVars, gen, returned, clientVars>>

\* ingest.py:64-66, 71: the lookup; a row found is returned
ResolverQuery(w) ==
  /\ res[w].pc = "query"
  /\ IF AddrIds(addrTable, res[w].address) /= {}
     THEN \E id \in AddrIds(addrTable, res[w].address) : Return(w, res[w].address, id)
     ELSE /\ res' = [res EXCEPT ![w].pc = "commit"]
          /\ UNCHANGED returned
  /\ UNCHANGED <<pipeVars, storeVars, gen, clientVars>>

\* ingest.py:67-71: session.add and session.commit.  The INSERT takes the next
\* id of the sequence and fails with IntegrityError if the address is stored.
ResolverCommit(w) ==
  /\ res[w].pc = "commit"
  /\ addrSeq' = addrSeq + 1
  /\ IF AddrInsertOk(addrTable, res[w].address)
     THEN /\ addrTable' = addrTable \cup {[id |-> addrSeq + 1, address |-> res[w].address]}
          /\ Return(w, res[w].address, addrSeq + 1)
     ELSE /\ res' = [res EXCEPT ![w].pc = "integrity", ![w].conflicts = @ + 1]
          /\ UNCHANGED <<addrTable, returned>>
  /\ UNCHANGED <<pipeVars, txTable, gen, clientVars>>

\* IntegrityError handled like any other error: rollback and None
ResolverReread_NoRecovery(w) ==
  /\ res[w].pc = "integrity"
  /\ Return(w, res[w].address, None)
  /\ UNCHANGED <<pipeVars, storeVars, gen, clientVars>>

\* ingest.py:72-76: on IntegrityError, rollback and read the row again with
\* .one(), which raises if there is none
ResolverReread(w) ==
  /\ res[w].pc = "integrity"
  /\ IF AddrIds(addrTable, res[w].address) /= {}
     THEN \E id \in AddrIds(addrTable, res[w].address) : Return(w, res[w].address, id)
     ELSE /\ res' = [res EXCEPT ![w].pc = "raised"]
          /\ UNCHANGED returned
  /\ UNCHANGED <<pipeVars, storeVars, gen, clientVars>>

InitResolver ==
  /\ InitIdle
  /\ gen = <<>>
  /\ returned = {}
  /\ InitClientIdle
  /\ res = [w \in 1..MaxCallers |-> [pc |-> "idle", address |-> "a", calls |-> 0, conflicts |-> 0]]

NextResolver ==
  \/ \E w \in DOMAIN res : ResolverCall(w)
  \/ \E w \in DOMAIN res : ResolverQuery(w)
  \/ \E w \in DOMAIN res : ResolverCommit(w)
  \/ \E w \in DOMAIN res : ResolverReread(w)

SpecResolver == InitResolver /\ [][NextResolver]_vars

\* C6: whatever the interleaving of the lookups, inserts and commits of
\* concurrent calls, every call for an address returns the id of the one row
\* of that address, never None and never an exception, and no address has two
\* rows: the calls for one address all return the same id.
C6_IdempotentResolution ==
  /\ \A a \in Addresses : Cardinality({r \in addrTable : r.address = a}) <= 1
  /\ \A x \in returned : x[2] /= None /\ AddrIds(addrTable, x[1]) = {x[2]}
  /\ \A w \in DOMAIN res : res[w].pc /= "raised"

\* two calls for one unseen address raced: one lost the insert, recovered and returned
C6_Witness ==
  \E w \in DOMAIN res :
    /\ res[w].conflicts >= 1
    /\ res[w].pc = "idle"
    /\ Cardinality({r \in addrTable : r.address = res[w].address}) = 1
    /\ \A v \in DOMAIN res : res[v].calls >= 1

\* ------------------------------------------------------------------------
\* The remote client on its own: concurrent calls of __call_etherscan by the
\* producer tasks and the coordinator, sharing api_call_semaphore
\* ------------------------------------------------------------------------
MaxApiCallers == 2

\* What one request attempt can meet: a body with a result list, the body
\* whose result is 'Max rate limit reached', a body without a 'result' key,
\* and requests.get or response.json() raising.
Responses == {"ok", "limit", "nokey", "raise"}

\* one attempt more than retries
HasAttempt_Extra(attempt) == attempt <= RETRIES

\* ingest.py:45: for attempt in range(retries)
HasAttempt(attempt) == attempt < RETRIES

\* a producer or the coordinator calls __call_etherscan (ingest.py:136, 162, 247)
ClientCall(w) ==
  /\ api[w].pc = "idle"
  /\ api' = [api EXCEPT ![w].pc = "for"]
  /\ UNCHANGED <<pipeVars, storeVars, gen, res, returned, permits>>

\* ingest.py:45, 57-58: the next attempt, or the raise once range(retries) is used up
ClientFor(w) ==
  /\ api[w].pc = "for"
  /\ api' = [api EXCEPT ![w].pc = IF HasAttempt(api[w].attempt) THEN "acquire" ELSE "raised"]
  /\ UNCHANGED <<pipeVars, storeVars, gen, res, returned, permits>>

\* ingest.py:46: `with api_call_semaphore` blocks until a permit is free
ClientAcquire(w) ==
  /\ api[w].pc = "acquire"
  /\ permits > 0
  /\ permits' = permits - 1
  /\ api' = [api EXCEPT ![w].pc = "get", ![w].acquired = @ + 1]
  /\ UNCHANGED <<pipeVars, storeVars, gen, res, returned>>

\* the exception leaving the with block without the release
ClientRequest_NoRelease(w) ==
  /\ api[w].pc = "get"
  /\ \E r \in Responses :
       /\ api' = [api EXCEPT ![w].resp = Append(@, r),
                             ![w].pc = IF r = "raise" THEN "error" ELSE "sleep"]
       /\ UNCHANGED permits
  /\ UNCHANGED <<pipeVars, storeVars, gen, res, returned>>

\* ingest.py:50-51: requests.get and response.json().  An exception leaves the
\* with block, which releases the permit, and propagates to the caller.
ClientRequest(w) ==
  /\ api[w].pc = "get"
  /\ \E r \in Responses :
       /\ api' = [api EXCEPT ![w].resp = Append(@, r),
                             ![w].pc = IF r = "raise" THEN "error" ELSE "sleep"]
       /\ permits' = IF r = "raise" THEN permits + 1 ELSE permits
  /\ UNCHANGED <<pipeVars, storeVars, gen, res, returned>>

\* ingest.py:52: time.sleep(delay) is over and the with block releases the permit
ClientRelease(w) ==
  /\ api[w].pc = "sleep"
  /\ permits' = permits + 1
  /\ api' = [api EXCEPT ![w].pc = "test"]
  /\ UNCHANGED <<pipeVars, storeVars, gen, res, returned>>

\* ingest.py:54-55: data['result'] raises KeyError on a body without the key;
\* a result other than the marker is returned, the marker starts the next attempt
ClientTest(w) ==
  /\ api[w].pc = "test"
  /\ LET data == api[w].resp[Len(api[w].resp)] IN
       api' = [api EXCEPT ![w] =
         IF data = "nokey" THEN [@ EXCEPT !.pc = "error"]
         ELSE IF data /= "limit" THEN [@ EXCEPT !.pc = "returned"]
         ELSE [@ EXCEPT !.pc = "for", !.attempt = @ + 1]]
  /\ UNCHANGED <<pipeVars, storeVars, gen, res, returned, permits>>

InitClient ==
  /\ InitIdle
  /\ gen = <<>>
  /\ res = <<>>
  /\ returned = {}
  /\ permits = SEMAPHOR_THREAD_COUNT
  /\ api = [w \in 1..MaxApiCallers |-> [pc |-> "idle", attempt |-> 0, acquired |-> 0, resp |-> <<>>]]

NextClient ==
  \/ \E w \in DOMAIN api : ClientCall(w)
  \/ \E w \in DOMAIN api : ClientFor(w)
  \/ \E w \in DOMAIN api : ClientAcquire(w)
  \/ \E w \in DOMAIN api : ClientRequest(w)
  \/ \E w \in DOMAIN api : ClientRelease(w)
  \/ \E w \in DOMAIN api : ClientTest(w)

SpecClient == InitClient /\ [][NextClient]_vars

\* the calls that hold a permit: in the network call or in the delay after it
Holding == {w \in DOMAIN api : api[w].pc \in {"get", "sleep"}}
ClientOver(w) == api[w].pc \in {"idle", "returned", "error", "raised"}
AllLimit(resp, n) == \A k \in 1..n : resp[k] = "limit"

\* C11: the calls in progress (network call plus delay) never exceed the
\* capacity of the semaphore; each of them holds exactly one permit, so the
\* free permits are the capacity less the calls in progress, and when no call
\* is in progress, whatever way the calls ended, all permits are free again.
C11_RateLimiterBound ==
  /\ Cardinality(Holding) <= SEMAPHOR_THREAD_COUNT
  /\ permits = SEMAPHOR_THREAD_COUNT - Cardinality(Holding)
  /\ (\A w \in DOMAIN api : ClientOver(w)) => permits = SEMAPHOR_THREAD_COUNT

\* every permit is held, by a call in a later attempt that gave its first
\* permit back and acquired another, while a call waits for a permit
C11_Witness ==
  /\ Cardinality(Holding) = SEMAPHOR_THREAD_COUNT
  /\ permits = 0
  /\ \E w \in DOMAIN api : api[w].pc = "acquire"
  /\ \E w \in Holding : api[w].acquired >= 2

\* C12: a call makes at most RETRIES attempts, each under a permit acquired
\* for it; every attempt before the last returned the marker; the call returns
\* at the first body whose result is not the marker, raises its own error
\* exactly when RETRIES attempts all returned the marker, and any other
\* failure ends it at the attempt in which it occurred.
C12_Retry ==
  \A w \in DOMAIN api :
    LET c == api[w]
        n == Len(c.resp)
    IN
      /\ n <= RETRIES
      /\ c.acquired <= RETRIES
      /\ c.acquired = IF c.pc = "get" THEN n + 1 ELSE n
      /\ n >= 1 => AllLimit(c.resp, n - 1)
      /\ c.pc = "returned" => (n >= 1 /\ c.resp[n] = "ok")
      /\ c.pc = "error" => (n >= 1 /\ c.resp[n] \in {"raise", "nokey"})
      /\ c.pc = "raised" => (n = RETRIES /\ AllLimit(c.resp, n))
      /\ (ClientOver(w) /\ n = RETRIES /\ AllLimit(c.resp, n)) => c.pc = "raised"
      /\ c.pc \in {"for", "acquire", "get"} => AllLimit(c.resp, n)

\* one call gave up after RETRIES marked bodies, another returned at its
\* first good body after a marked one
C12_Witness ==
  /\ \E w \in DOMAIN api : api[w].pc = "raised"
  /\ \E w \in DOMAIN api : api[w].pc = "returned" /\ Len(api[w].resp) >= 2

====
